---- MODULE Spec2Model ----
(***************************************************************************)
(* Convolution execution engine of burn-jit: the col2im scatter kernel,    *)
(* the GEMM transposed convolution that launches it, the autotune keys and *)
(* tuner calls, and the strategy dispatcher.                               *)
(*                                                                         *)
(* Tensors are flat row-major buffers indexed from 0.  Element values are  *)
(* integers (exact arithmetic).                                            *)
(***************************************************************************)
EXTENDS Integers, Sequences, FiniteSets, TLC

VARIABLES
    args,       \* Col2ImArgs of the launch under study
    columns,    \* the columns buffer handed to col2im_kernel, [0..n-1 -> Int]
    known,      \* the image the columns were unfolded from, or <<>>
    res,        \* what the simulated thread did (KernelSpec)
    image,      \* the output buffer of the launch (LaunchSpec)
    spill,      \* what was stored past the end of image
    pcs,        \* per launched thread: "start", "loaded" or "done"
    th,         \* per launched thread: what it computed
    hits,       \* per image position: number of stores that landed there
    writers,    \* per image position: the threads whose store landed there
    gcall,      \* the call of conv_transpose2d_col2im under study (GroupSpec)
    gweight,    \* its weight tensor, as reshaped for the matmul
    ginput,     \* its input tensor, as swapped and reshaped for the matmul
    staging,    \* the columns tensor being built
    assigns,    \* per staging element: number of times it was assigned
    group,      \* the group loop's counter
    gpc,        \* "matmul", "col2im" or "done"
    gout,       \* per image position: the value computed for it
    tuners,     \* per operation: the entries of its static tuner (ConvSpec)
    last,       \* the last dispatched call and what it did
    prev,       \* the call before it
    seen,       \* <<op, device, key>> of the autotune calls completed before last
    ncalls,     \* number of calls dispatched
    repcall,    \* the call of repeat_dim under study (RepeatSpec)
    repout,     \* its output tensor, <<>> before the launch
    reppcs,     \* per launched thread: "start" or "done"
    repth,      \* per launched thread: what it computed
    repwriters  \* per output position: the threads whose store landed there

kvars == <<args, columns, known, res>>
lvars == <<image, spill, pcs, th, hits, writers>>
gvars == <<gcall, gweight, ginput, staging, assigns, group, gpc, gout>>
vars == <<args, columns, known, res, image, spill, pcs, th, hits, writers,
          gcall, gweight, ginput, staging, assigns, group, gpc, gout,
          tuners, last, prev, seen, ncalls,
          repcall, repout, reppcs, repth, repwriters>>
tvars == <<tuners, last, prev, seen, ncalls>>
rvars == <<repcall, repout, reppcs, repth, repwriters>>

(***************************************************************************)
(* Bounds of the model.                                                    *)
(***************************************************************************)
MaxKernel == 2
MaxStride == 2
MaxDilation == 2
MaxPad == 1
MaxPadOut == 1
MaxIn == 2
MaxBatch == 2
MaxCh == 2

Min(a, b) == IF a <= b THEN a ELSE b
Max(a, b) == IF a >= b THEN a ELSE b

RECURSIVE SumSeq(_)
SumSeq(s) == IF s = <<>> THEN 0 ELSE Head(s) + SumSeq(Tail(s))

RECURSIVE SumSet(_, _)
\* Sum of f[e] over the finite set S.
SumSet(f, S) ==
    IF S = {} THEN 0
    ELSE LET e == CHOOSE x \in S : TRUE IN f[e] + SumSet(f, S \ {e})

(***************************************************************************)
(* burn_tensor::ops::conv::calculate_conv_transpose_output_size            *)
(* (not among the sources; taken from the specification, section 4.1).     *)
(***************************************************************************)
calculate_conv_transpose_output_size(kernel, stride, padding, padding_out, dilation, size_in) ==
    (size_in - 1) * stride - 2 * padding + dilation * (kernel - 1) + padding_out + 1

(***************************************************************************)
(* conv_transpose2d_col2im, lines 34-66, and col2im, lines 131-167: the    *)
(* scalar geometry handed to the kernel.  weight.shape =                   *)
(* <<input_channels, im_ch_per_group, kernel_h, kernel_w>>, input.shape =  *)
(* <<batch_size, _, input_h, input_w>>.                                    *)
(***************************************************************************)
Col2ImArgs(wshape, ishape, o) ==
    [ batch_size  |-> ishape[1],
      im_channels |-> wshape[2] * o.groups,
      im_height   |-> calculate_conv_transpose_output_size(
                          wshape[3], o.stride[1], o.padding[1], o.padding_out[1],
                          o.dilation[1], ishape[3]),
      im_width    |-> calculate_conv_transpose_output_size(
                          wshape[4], o.stride[2], o.padding[2], o.padding_out[2],
                          o.dilation[2], ishape[4]),
      out_h       |-> ishape[3],
      out_w       |-> ishape[4],
      kernel_h    |-> wshape[3],
      kernel_w    |-> wshape[4],
      pad_h       |-> o.padding[1],
      pad_w       |-> o.padding[2],
      dilation_h  |-> o.dilation[1],
      dilation_w  |-> o.dilation[2],
      stride_h    |-> o.stride[1],
      stride_w    |-> o.stride[2] ]

\* image.len(): im_shape.num_elements() of the tensor col2im allocates.
ImageLen(a) == a.batch_size * a.im_channels * a.im_height * a.im_width

\* columns.len(): [im_channels * kernel_h * kernel_w, batch_size * out_h * out_w].
ColumnsLen(a) ==
    a.im_channels * a.kernel_h * a.kernel_w * a.batch_size * a.out_h * a.out_w

(***************************************************************************)
(* col2im_kernel, one thread; t is ABSOLUTE_POS.                           *)
(* Unsigned subtraction is written as integer subtraction: a negative      *)
(* value here is a wrapped u32 in the code.                                *)
(***************************************************************************)
x_im(t, a) == (t % a.im_width) + a.pad_w
y_im(t, a) == ((t \div a.im_width) % a.im_height) + a.pad_h
ch_im(t, a) == (t \div (a.im_width * a.im_height)) % a.im_channels
batch(t, a) == t \div (a.im_width * a.im_height * a.im_channels)

kernel_extent_w(a) == (a.kernel_w - 1) * a.dilation_w + 1
kernel_extent_h(a) == (a.kernel_h - 1) * a.dilation_h + 1

x_col_start_unguarded(t, a) ==
    ((x_im(t, a) - kernel_extent_w(a)) \div a.stride_w) + 1

x_col_start(t, a) ==
    IF x_im(t, a) >= kernel_extent_w(a)
    THEN ((x_im(t, a) - kernel_extent_w(a)) \div a.stride_w) + 1
    ELSE 0

x_col_end_unclamped(t, a) == (x_im(t, a) \div a.stride_w) + 1

x_col_end(t, a) == Min((x_im(t, a) \div a.stride_w) + 1, a.out_w)

y_col_start_off_by_one(t, a) ==
    IF y_im(t, a) >= kernel_extent_h(a)
    THEN (y_im(t, a) - kernel_extent_h(a)) \div a.stride_h
    ELSE 0

y_col_start(t, a) ==
    IF y_im(t, a) >= kernel_extent_h(a)
    THEN ((y_im(t, a) - kernel_extent_h(a)) \div a.stride_h) + 1
    ELSE 0

y_col_end(t, a) == Min((y_im(t, a) \div a.stride_h) + 1, a.out_h)

\* The (col_y, col_x) pairs the two nested range loops visit, in loop order.
Visited(t, a) ==
    LET ys == y_col_start(t, a)
        xs == x_col_start(t, a)
        ny == Max(0, y_col_end(t, a) - ys)
        nx == Max(0, x_col_end(t, a) - xs)
    IN  [i \in 1..(ny * nx) |-> <<ys + ((i - 1) \div nx), xs + ((i - 1) % nx)>>]

k_y(t, a, col_y) == y_im(t, a) - col_y * a.stride_h
k_x(t, a, col_x) == x_im(t, a) - col_x * a.stride_w

OnLatticeAlways(t, a, v) == TRUE

\* if k_y % args.dilation_h == 0 && k_x % args.dilation_w == 0
OnLattice(t, a, v) ==
    /\ k_y(t, a, v[1]) % a.dilation_h = 0
    /\ k_x(t, a, v[2]) % a.dilation_w = 0

kernel_y(t, a, col_y) == k_y(t, a, col_y) \div a.dilation_h
kernel_x(t, a, col_x) == k_x(t, a, col_x) \div a.dilation_w

col_pos(t, a, col_y, col_x) ==
    LET col_shape_1 == a.batch_size * a.out_h * a.out_w
    IN  ch_im(t, a) * a.kernel_h * a.kernel_w * col_shape_1
        + kernel_y(t, a, col_y) * a.kernel_w * col_shape_1
        + kernel_x(t, a, col_x) * col_shape_1
        + batch(t, a) * a.out_h * a.out_w
        + col_y * a.out_w
        + col_x

\* The taps that pass the dilation test, in loop order, as
\* <<kernel_y, kernel_x, col_y, col_x, col_pos>>.
Taps(t, a) ==
    LET Pass(v) == OnLattice(t, a, v)
        hit == SelectSeq(Visited(t, a), Pass)
    IN  [i \in 1..Len(hit) |->
            <<kernel_y(t, a, hit[i][1]), kernel_x(t, a, hit[i][2]),
              hit[i][1], hit[i][2], col_pos(t, a, hit[i][1], hit[i][2])>>]

\* columns[col_pos] of an unchecked launch: an index past the buffer reads
\* whatever lies there (junk).
Load(cols, pos, junk) == IF pos \in DOMAIN cols THEN cols[pos] ELSE junk

\* if ABSOLUTE_POS > image.len() { return; }
Returns(t, a) == t > ImageLen(a)

\* One whole thread: whether it ran past the guard, what it visited and
\* read, the value it accumulated and the index it stores it to.
col2im_kernel(t, cols, a, junk) ==
    IF Returns(t, a)
    THEN [tid |-> t, ran |-> FALSE, visited |-> <<>>, taps |-> <<>>,
          val |-> 0, store |-> -1]
    ELSE LET taps == Taps(t, a)
         IN  [tid |-> t, ran |-> TRUE, visited |-> Visited(t, a), taps |-> taps,
              val |-> SumSeq([i \in 1..Len(taps) |-> Load(cols, taps[i][5], junk)]),
              store |-> t]

(***************************************************************************)
(* col2im, lines 142-169: the launch.  calculate_cube_count_elemwise       *)
(* rounds the element count up to whole cubes of CubeDimElems threads      *)
(* (CubeDim::default()); the model's cube is small.                        *)
(***************************************************************************)
CubeDimElems == 4

LaunchedThreads(a) ==
    Max(1, (ImageLen(a) + CubeDimElems - 1) \div CubeDimElems) * CubeDimElems

(***************************************************************************)
(* Inputs of conv_transpose2d_col2im the model draws from.                 *)
(***************************************************************************)
\* One spatial axis of a call: kernel size k, input size n, stride s,
\* dilation d, padding p, output padding po.
AxisSet ==
    [ k : 1..MaxKernel, n : 1..MaxIn, s : 1..MaxStride, d : 1..MaxDilation,
      p : 0..MaxPad, po : 0..MaxPadOut ]

\* An axis the library accepts: output padding below the stride and a
\* non-empty output.
ValidAxis(g) ==
    /\ g.po < g.s
    /\ calculate_conv_transpose_output_size(g.k, g.s, g.p, g.po, g.d, g.n) >= 1

TrivialAxis == [k |-> 1, n |-> 1, s |-> 1, d |-> 1, p |-> 0, po |-> 0]

\* The (weight.shape, input.shape, options) of a call with im_ch_per_group
\* c, batch size b and the two axes gh, gw; one group, one input channel.
Call(b, c, gh, gw) ==
    << <<1, c, gh.k, gw.k>>, <<b, 1, gh.n, gw.n>>,
       [ stride |-> <<gh.s, gw.s>>, padding |-> <<gh.p, gw.p>>,
         padding_out |-> <<gh.po, gw.po>>, dilation |-> <<gh.d, gw.d>>,
         groups |-> 1 ] >>

ArgsOfCall(c) == Col2ImArgs(c[1], c[2], c[3])

\* kernel 3x3, stride 1, padding 1, dilation 1, one group, batch 1, one
\* channel, 4x4 input.
Scenario4x4 ==
    LET g == [k |-> 3, n |-> 4, s |-> 1, d |-> 1, p |-> 1, po |-> 0]
    IN  ArgsOfCall(Call(1, 1, g, g))

\* dilation 2, kernel 3x3.
ScenarioDilation2 ==
    LET g == [k |-> 3, n |-> 3, s |-> 1, d |-> 2, p |-> 0, po |-> 0]
    IN  ArgsOfCall(Call(1, 1, g, g))

\* Two different axes at once.
ScenarioMixed ==
    ArgsOfCall(Call(2, 2, [k |-> 2, n |-> 2, s |-> 2, d |-> 1, p |-> 1, po |-> 1],
                          [k |-> 3, n |-> 3, s |-> 1, d |-> 2, p |-> 0, po |-> 0]))

\* The geometries of KernelSpec: every valid axis as the height with a
\* trivial width, as the width with a trivial height, and as both; and the
\* scenarios.
Geometries ==
    {ArgsOfCall(Call(b, c, g, TrivialAxis)) :
        b \in 1..MaxBatch, c \in 1..MaxCh, g \in {x \in AxisSet : ValidAxis(x)}}
    \cup {ArgsOfCall(Call(b, c, TrivialAxis, g)) :
        b \in 1..MaxBatch, c \in 1..MaxCh, g \in {x \in AxisSet : ValidAxis(x)}}
    \cup {ArgsOfCall(Call(b, c, g, g)) :
        b \in 1..MaxBatch, c \in 1..MaxCh, g \in {x \in AxisSet : ValidAxis(x)}}
    \cup {Scenario4x4, ScenarioDilation2, ScenarioMixed}

\* Buffer contents the model draws from.
ImagePattern(a) == [i \in 0..(ImageLen(a) - 1) |-> i + 1]

ColumnsPattern(a) == [i \in 0..(ColumnsLen(a) - 1) |-> i + 1]

\* What an out-of-bounds load may return.
Junk == {0, 1000}

(***************************************************************************)
(* The forward unfold (im2col) formula and the naive reference sum the     *)
(* kernel is compared with.                                                *)
(***************************************************************************)
\* columns[(c,ky,kx),(b,cy,cx)] = image[b,c,cy*stride_h + ky*dilation_h - pad_h,
\*                                       cx*stride_w + kx*dilation_w - pad_w]
Unfold(img, a) ==
    LET col_shape_1 == a.batch_size * a.out_h * a.out_w
    IN  [p \in 0..(ColumnsLen(a) - 1) |->
            LET row == p \div col_shape_1
                col == p % col_shape_1
                c   == row \div (a.kernel_h * a.kernel_w)
                ky  == (row \div a.kernel_w) % a.kernel_h
                kx  == row % a.kernel_w
                b   == col \div (a.out_h * a.out_w)
                cy  == (col \div a.out_w) % a.out_h
                cx  == col % a.out_w
                y   == cy * a.stride_h + ky * a.dilation_h - a.pad_h
                x   == cx * a.stride_w + kx * a.dilation_w - a.pad_w
            IN  IF y \in 0..(a.im_height - 1) /\ x \in 0..(a.im_width - 1)
                THEN img[((b * a.im_channels + c) * a.im_height + y) * a.im_width + x]
                ELSE 0]

\* The (ky, kx, cy, cx) that the reference sums over for flat index t.
RefTaps(t, a) ==
    LET x == t % a.im_width
        y == (t \div a.im_width) % a.im_height
    IN  {r \in (0..(a.kernel_h - 1)) \X (0..(a.kernel_w - 1))
                \X (0..(a.out_h - 1)) \X (0..(a.out_w - 1)) :
            /\ r[3] * a.stride_h + r[1] * a.dilation_h = y + a.pad_h
            /\ r[4] * a.stride_w + r[2] * a.dilation_w = x + a.pad_w}

RefPos(t, a, r) ==
    LET c == (t \div (a.im_width * a.im_height)) % a.im_channels
        b == t \div (a.im_width * a.im_height * a.im_channels)
    IN  ((c * a.kernel_h + r[1]) * a.kernel_w + r[2]) * (a.batch_size * a.out_h * a.out_w)
        + b * a.out_h * a.out_w + r[3] * a.out_w + r[4]

RefSum(t, cols, a) ==
    SumSet([r \in RefTaps(t, a) |-> cols[RefPos(t, a, r)]], RefTaps(t, a))

(***************************************************************************)
(* KernelSpec: col2im_kernel as a function of (ABSOLUTE_POS, columns,      *)
(* args), applied to each launched thread of each geometry.                *)
(***************************************************************************)
NoThread ==
    [tid |-> -1, ran |-> FALSE, visited |-> <<>>, taps |-> <<>>, val |-> 0, store |-> -1]

\* The launch variables while no launch is modelled.
IdleLaunch ==
    /\ image = <<>>
    /\ spill = <<>>
    /\ pcs = <<>>
    /\ th = <<>>
    /\ hits = <<>>
    /\ writers = <<>>

\* The variables of the grouped matmul while it is not modelled.
IdleGroups ==
    /\ gcall = <<>>
    /\ gweight = <<>>
    /\ ginput = <<>>
    /\ staging = <<>>
    /\ assigns = <<>>
    /\ group = 0
    /\ gpc = "idle"
    /\ gout = <<>>

\* The dispatcher's variables while it is not modelled.
IdleConv ==
    /\ tuners = <<>>
    /\ last = <<>>
    /\ prev = <<>>
    /\ seen = {}
    /\ ncalls = 0

\* The variables of repeat_dim while it is not modelled.
IdleRepeat ==
    /\ repcall = <<>>
    /\ repout = <<>>
    /\ reppcs = <<>>
    /\ repth = <<>>
    /\ repwriters = <<>>

InitKernel ==
    /\ IdleLaunch
    /\ IdleGroups
    /\ IdleConv
    /\ IdleRepeat
    /\ args \in Geometries
    /\ \/ /\ known = ImagePattern(args)
          /\ columns = Unfold(known, args)
       \/ /\ known = <<>>
          /\ columns = ColumnsPattern(args)
    /\ res = NoThread

RunThread ==
    /\ res = NoThread
    /\ \E t \in 0..(LaunchedThreads(args) - 1), junk \in Junk :
          res' = col2im_kernel(t, columns, args, junk)
    /\ UNCHANGED <<args, columns, known>>
    /\ UNCHANGED lvars
    /\ UNCHANGED gvars
    /\ UNCHANGED tvars
    /\ UNCHANGED rvars

NextKernel == RunThread

KernelSpec == InitKernel /\ [][NextKernel]_vars

InRange == res.ran /\ res.tid < ImageLen(args)

\* C1: for every in-range flat index the value the kernel writes is the
\* naive reference sum over exactly the taps (ky, kx, cy, cx) with
\* cy*stride_h + ky*dilation_h = y + pad_h and cx*stride_w + kx*dilation_w
\* = x + pad_w; every such tap is accumulated once and no other is.
C1_KernelEqualsReference ==
    InRange =>
        /\ res.val = RefSum(res.tid, columns, args)
        /\ res.store = res.tid
        /\ Len(res.taps) = Cardinality(RefTaps(res.tid, args))
        /\ {<<res.taps[i][1], res.taps[i][2], res.taps[i][3], res.taps[i][4]>> :
                i \in 1..Len(res.taps)} = RefTaps(res.tid, args)
        /\ \A i \in 1..Len(res.taps) :
              res.taps[i][5] = RefPos(res.tid, args, res.taps[i])

\* A thread of the dilation-2 3x3 scenario that visits grid positions off
\* the dilation lattice and still accumulates several taps.
C1_Witness ==
    /\ InRange
    /\ args = ScenarioDilation2
    /\ Len(res.taps) >= 2
    /\ Len(res.visited) > Len(res.taps)

\* Number of taps (ky, kx, cy, cx) of the unfold that land on position t.
Coverage(t, a) == Cardinality(RefTaps(t, a))

FromKnownImage == known # <<>> /\ InRange

\* C2 as stated: col2im_kernel applied to the unfold of a known image gives
\* the image back exactly.
C2_RoundTripExact == FromKnownImage => res.val = known[res.tid]

\* C2 amended: col2im_kernel applied to the unfold of a known image gives,
\* at each position, the image value times the number of unfold taps that
\* land on the position (so the image itself exactly where that number is 1).
C2_RoundTripScaled ==
    FromKnownImage =>
        /\ res.val = Coverage(res.tid, args) * known[res.tid]
        /\ Coverage(res.tid, args) = 1 => res.val = known[res.tid]

\* A position of an unfolded image that several taps land on, so that the
\* kernel's value is a multiple of the image value and not the value.
C2_Witness ==
    /\ FromKnownImage
    /\ Coverage(res.tid, args) >= 2
    /\ res.val = Coverage(res.tid, args) * known[res.tid]
    /\ res.val # known[res.tid]

\* C5: for every in-range thread each visited grid position lies in
\* [0, out_h) x [0, out_w), each accumulated tap has kernel_y < kernel_h and
\* kernel_x < kernel_w, each col_pos is below the columns length; and the
\* 3x3 / stride 1 / padding 1 scenario on a 4x4 input gives a 4x4 image.
C5_ScatterInBounds ==
    /\ InRange =>
          /\ \A i \in 1..Len(res.visited) :
                /\ res.visited[i][1] \in 0..(args.out_h - 1)
                /\ res.visited[i][2] \in 0..(args.out_w - 1)
          /\ \A i \in 1..Len(res.taps) :
                /\ res.taps[i][1] \in 0..(args.kernel_h - 1)
                /\ res.taps[i][2] \in 0..(args.kernel_w - 1)
                /\ res.taps[i][5] \in 0..(ColumnsLen(args) - 1)
    /\ args = Scenario4x4 =>
          /\ args.im_height = 4
          /\ args.im_width = 4
          /\ ImageLen(args) = 16

\* An interior pixel of the 4x4 scenario: all nine taps are accumulated.
C5_Witness ==
    /\ InRange
    /\ args = Scenario4x4
    /\ args.im_height = 4
    /\ Len(res.taps) = 9
    /\ Len(res.visited) = 9

(***************************************************************************)
(* LaunchSpec: one launch of col2im_kernel by col2im, lines 133-171; the   *)
(* launched threads run in any order, each in two steps: the loop that     *)
(* accumulates from columns, then the store image[ABSOLUTE_POS] = val.     *)
(***************************************************************************)
MaxLaunchLen == 5

\* empty_device: the output buffer starts uninitialised.
Uninit == -1

LaunchGeometries == {g \in Geometries : ImageLen(g) <= MaxLaunchLen}

Threads == 0..(LaunchedThreads(args) - 1)

\* Where a store to image[i] of the unchecked launch lands: in bounds at
\* i; out of bounds the store is dropped ("skip"), redirected to the last
\* element ("clamp") or done past the end of the buffer ("raw"), depending
\* on the backend's bounds policy.
StoreOutcomes(i, a) == IF i < ImageLen(a) THEN {"in"} ELSE {"skip", "clamp", "raw"}

InitLaunch ==
    /\ IdleGroups
    /\ IdleConv
    /\ IdleRepeat
    /\ args \in LaunchGeometries
    /\ known = <<>>
    /\ columns = ColumnsPattern(args)
    /\ res = NoThread
    /\ image = [p \in 0..(ImageLen(args) - 1) |-> Uninit]
    /\ spill = <<>>
    /\ pcs = [t \in Threads |-> "start"]
    /\ th = [t \in Threads |-> NoThread]
    /\ hits = [p \in 0..(ImageLen(args) - 1) |-> 0]
    /\ writers = [p \in 0..(ImageLen(args) - 1) |-> {}]

\* Lines 197-241: the guard and the accumulation loop of thread t.
Accumulate(t) ==
    /\ pcs[t] = "start"
    /\ \E junk \in Junk :
          LET r == col2im_kernel(t, columns, args, junk)
          IN  /\ th' = [th EXCEPT ![t] = r]
              /\ pcs' = [pcs EXCEPT ![t] = IF r.ran THEN "loaded" ELSE "done"]
    /\ UNCHANGED <<args, columns, known, res, image, spill, hits, writers>>
    /\ UNCHANGED gvars
    /\ UNCHANGED tvars
    /\ UNCHANGED rvars

\* Line 242: image[ABSOLUTE_POS] = val.
Store(t) ==
    /\ pcs[t] = "loaded"
    /\ pcs' = [pcs EXCEPT ![t] = "done"]
    /\ \E how \in StoreOutcomes(th[t].store, args) :
          LET at == IF how = "in" THEN th[t].store ELSE ImageLen(args) - 1
          IN  \/ /\ how \in {"in", "clamp"}
                 /\ image' = [image EXCEPT ![at] = th[t].val]
                 /\ hits' = [hits EXCEPT ![at] = @ + 1]
                 /\ writers' = [writers EXCEPT ![at] = @ \cup {t}]
                 /\ UNCHANGED spill
              \/ /\ how = "raw"
                 /\ spill' = Append(spill, th[t].val)
                 /\ UNCHANGED <<image, hits, writers>>
              \/ /\ how = "skip"
                 /\ UNCHANGED <<image, hits, writers, spill>>
    /\ UNCHANGED <<args, columns, known, res, th>>
    /\ UNCHANGED gvars
    /\ UNCHANGED tvars
    /\ UNCHANGED rvars

NextLaunch ==
    \/ \E t \in Threads : Accumulate(t)
    \/ \E t \in Threads : Store(t)

LaunchSpec == InitLaunch /\ [][NextLaunch]_vars

AllDone == \A t \in Threads : pcs[t] = "done"

\* C3: a launched thread whose flat index is not below image.len() reads
\* no columns entry and stores nothing, so every store is to an index in
\* [0, image.len()).
C3_OutOfRangeThreadsIdle ==
    /\ \A t \in Threads :
          (t >= ImageLen(args) /\ pcs[t] # "start") =>
              /\ ~th[t].ran
              /\ th[t].taps = <<>>
              /\ th[t].store = -1
    /\ \A t \in Threads : th[t].ran => th[t].store \in 0..(ImageLen(args) - 1)
    /\ spill = <<>>

RECURSIVE Numel(_)
Numel(shape) == IF shape = <<>> THEN 1 ELSE Head(shape) * Numel(Tail(shape))

reshape(t, shape) == [shape |-> shape, data |-> t.data]

\* swap_dims(t, 0, 1)
swap_dims(t) ==
    LET d0 == t.shape[1]
        d1 == t.shape[2]
        rest == Numel(t.shape) \div (d0 * d1)
    IN  [ shape |-> [t.shape EXCEPT ![1] = d1, ![2] = d0],
          data |-> [j \in 0..(Numel(t.shape) - 1) |->
                      t.data[(((j \div rest) % d0) * d1 + (j \div (d0 * rest))) * rest
                             + (j % rest)]] ]

float_matmul(lhs, rhs) ==
    LET k == lhs.shape[2]
        n == rhs.shape[2]
    IN  [ shape |-> <<lhs.shape[1], n>>,
          data |-> [j \in 0..(lhs.shape[1] * n - 1) |->
                      {<<lhs.data[(j \div n) * k + i], rhs.data[i * n + (j % n)]>> :
                          i \in 0..(k - 1)}] ]

\* float_slice_assign(t, [g..g+1, 0..shape[1], 0..shape[2]], values)
float_slice_assign(t, g, values) ==
    LET sz == t.shape[2] * t.shape[3]
    IN  [t EXCEPT !.data = [j \in DOMAIN t.data |->
                              IF j \div sz = g THEN values.data[j % sz] ELSE t.data[j]]]

float_add(lhs, rhs) ==
    [lhs EXCEPT !.data = [j \in DOMAIN lhs.data |-> lhs.data[j] \cup rhs.data[j]]]

index_first(t, i) ==
    [ shape |-> <<t.shape[2], t.shape[3]>>,
      data |-> [j \in 0..(t.shape[2] * t.shape[3] - 1) |-> t.data[j]] ]

\* base.rs, index: float_narrow(tensor, 0, index, 1) reshaped to 2D.
index(t, i) ==
    [ shape |-> <<t.shape[2], t.shape[3]>>,
      data |-> [j \in 0..(t.shape[2] * t.shape[3] - 1) |->
                  t.data[i * t.shape[2] * t.shape[3] + j]] ]

\* What an element of empty_device memory, or memory past a buffer, holds.
Garbage == {<<-9, -9>>}

(***************************************************************************)
(* GroupSpec: conv_transpose2d_col2im, lines 26-120, step by step.         *)
(***************************************************************************)
MaxGroups == 2

\* A call with the given batch size, channels per group (input and image),
\* groups and axes.
GroupedCall(b, icpg, c, G, gh, gw, has_bias) ==
    [ wshape |-> <<G * icpg, c, gh.k, gw.k>>,
      ishape |-> <<b, G * icpg, gh.n, gw.n>>,
      options |-> [ stride |-> <<gh.s, gw.s>>, padding |-> <<gh.p, gw.p>>,
                    padding_out |-> <<gh.po, gw.po>>, dilation |-> <<gh.d, gw.d>>,
                    groups |-> G ],
      has_bias |-> has_bias ]

\* groups = 4, in_channels = 8, out_channels = 8.
ScenarioGroups4 ==
    LET g == [k |-> 2, n |-> 2, s |-> 1, d |-> 1, p |-> 0, po |-> 0]
    IN  GroupedCall(1, 2, 2, 4, g, g, TRUE)

\* Two groups with stride, dilation, padding and output padding at work.
ScenarioGroupsMixed ==
    GroupedCall(2, 2, 2, 2, [k |-> 2, n |-> 2, s |-> 2, d |-> 2, p |-> 1, po |-> 1],
                            [k |-> 2, n |-> 3, s |-> 1, d |-> 1, p |-> 0, po |-> 0], TRUE)

\* The calls of GroupSpec: square, unpadded and undilated, every kernel
\* size, input size and stride; and the scenarios.
GroupedCalls ==
    {GroupedCall(b, icpg, c, G, g, g, hb) :
        b \in 1..MaxBatch, icpg \in 1..MaxCh, c \in 1..MaxCh, G \in 1..MaxGroups,
        g \in {x \in AxisSet : ValidAxis(x) /\ x.p = 0 /\ x.po = 0 /\ x.d = 1},
        hb \in BOOLEAN}
    \cup {ScenarioGroups4, ScenarioGroupsMixed}

input_ch_per_group(c) == c.wshape[1] \div c.options.groups
col_shape_0(c) == c.wshape[2] * c.wshape[3] * c.wshape[4]
col_shape_1(c) == c.ishape[1] * c.ishape[3] * c.ishape[4]

InitGroups ==
    /\ IdleLaunch
    /\ IdleConv
    /\ IdleRepeat
    /\ gcall \in GroupedCalls
    /\ args = Col2ImArgs(gcall.wshape, gcall.ishape, gcall.options)
    /\ columns = <<>>
    /\ known = <<>>
    /\ res = NoThread
    /\ gweight = [shape |-> gcall.wshape,
                  data |-> [j \in 0..(Numel(gcall.wshape) - 1) |-> j]]
    /\ ginput = [shape |-> gcall.ishape,
                 data |-> [j \in 0..(Numel(gcall.ishape) - 1) |-> j]]
    /\ staging = <<>>
    /\ assigns = <<>>
    /\ group = 0
    /\ gpc = "start"
    /\ gout = <<>>

\* Lines 68-79: the staging buffer and the per-group views.
Prepare ==
    /\ gpc = "start"
    /\ gcall.options.groups > 1
    /\ LET G == gcall.options.groups
           n == G * col_shape_0(gcall) * col_shape_1(gcall)
       IN  /\ staging' = [shape |-> <<G, col_shape_0(gcall), col_shape_1(gcall)>>,
                          data |-> [j \in 0..(n - 1) |-> Garbage]]
           /\ assigns' = [j \in 0..(n - 1) |-> 0]
           /\ gweight' = reshape(gweight,
                                 <<G, input_ch_per_group(gcall), col_shape_0(gcall)>>)
           /\ ginput' = reshape(swap_dims(ginput),
                                <<G, input_ch_per_group(gcall), col_shape_1(gcall)>>)
    /\ group' = 0
    /\ gpc' = "loop"
    /\ UNCHANGED <<gcall, gout>>
    /\ UNCHANGED kvars
    /\ UNCHANGED lvars
    /\ UNCHANGED tvars
    /\ UNCHANGED rvars

\* Lines 82-85: the values of one pass of the group loop.
GroupValues(g) ==
    reshape(float_matmul(swap_dims(index(gweight, g)), index(ginput, g)),
            <<1, col_shape_0(gcall), col_shape_1(gcall)>>)

\* Lines 81-91: one pass of the group loop.
GroupIteration ==
    /\ gpc = "loop"
    /\ group < gcall.options.groups
    /\ staging' = float_slice_assign(staging, group, GroupValues(group))
    /\ assigns' = [j \in DOMAIN assigns |->
                     IF j \div (col_shape_0(gcall) * col_shape_1(gcall)) = group
                     THEN assigns[j] + 1 ELSE assigns[j]]
    /\ group' = group + 1
    /\ UNCHANGED <<gcall, gweight, ginput, gpc, gout>>
    /\ UNCHANGED kvars
    /\ UNCHANGED lvars
    /\ UNCHANGED tvars
    /\ UNCHANGED rvars

\* Line 92: the group axis folded into the rows.
Fold ==
    /\ gpc = "loop"
    /\ group = gcall.options.groups
    /\ staging' = reshape(staging,
                          <<col_shape_0(gcall) * gcall.options.groups, col_shape_1(gcall)>>)
    /\ gpc' = "col2im"
    /\ UNCHANGED <<gcall, gweight, ginput, assigns, group, gout>>
    /\ UNCHANGED kvars
    /\ UNCHANGED lvars
    /\ UNCHANGED tvars
    /\ UNCHANGED rvars

\* Lines 93-100: one group.
Ungrouped ==
    /\ gpc = "start"
    /\ gcall.options.groups <= 1
    /\ LET weight == swap_dims(reshape(gweight, <<gcall.wshape[1], col_shape_0(gcall)>>))
           input == reshape(swap_dims(ginput), <<gcall.wshape[1], col_shape_1(gcall)>>)
       IN  /\ staging' = float_matmul(weight, input)
           /\ assigns' = [j \in 0..(col_shape_0(gcall) * col_shape_1(gcall) - 1) |-> 1]
    /\ gpc' = "col2im"
    /\ UNCHANGED <<gcall, gweight, ginput, group, gout>>
    /\ UNCHANGED kvars
    /\ UNCHANGED lvars
    /\ UNCHANGED tvars
    /\ UNCHANGED rvars

\* Lines 106-116: the bias broadcast by a matmul with a row of ones.  A
\* bias element c is -(c + 1), a one is -100.
BiasImage(c, a) ==
    LET n == a.batch_size * a.im_height * a.im_width
        ones == [shape |-> <<1, n>>, data |-> [j \in 0..(n - 1) |-> -100]]
        bias == [shape |-> <<a.im_channels, 1>>,
                 data |-> [j \in 0..(a.im_channels - 1) |-> -(j + 1)]]
    IN  swap_dims(reshape(float_matmul(bias, ones),
                          <<a.im_channels, a.batch_size, a.im_height, a.im_width>>))

\* Lines 102-119: col2im over the folded columns, then the bias; gout holds
\* for each image position what the thread of that position computes.
Scatter ==
    /\ gpc = "col2im"
    /\ LET im == [ shape |-> <<args.batch_size, args.im_channels,
                               args.im_height, args.im_width>>,
                   data |-> [p \in 0..(ImageLen(args) - 1) |->
                               UNION {Load(staging.data, Taps(p, args)[i][5], Garbage) :
                                         i \in 1..Len(Taps(p, args))}] ]
       IN  gout' = IF gcall.has_bias THEN float_add(im, BiasImage(gcall, args)) ELSE im
    /\ gpc' = "done"
    /\ UNCHANGED <<gcall, gweight, ginput, staging, assigns, group>>
    /\ UNCHANGED kvars
    /\ UNCHANGED lvars
    /\ UNCHANGED tvars
    /\ UNCHANGED rvars

NextGroups ==
    \/ Prepare
    \/ GroupIteration
    \/ Fold
    \/ Ungrouped
    \/ Scatter

GroupSpec == InitGroups /\ [][NextGroups]_vars

\* The group an element of the weight tensor belongs to: its row (input
\* channel) over input_ch_per_group.
WeightGroup(wid) ==
    (wid \div col_shape_0(gcall)) \div input_ch_per_group(gcall)

\* The group an element of the input tensor belongs to.
InputGroup(iid) ==
    ((iid \div (gcall.ishape[3] * gcall.ishape[4])) % gcall.ishape[2])
        \div input_ch_per_group(gcall)

\* The element of the input tensor at (batch, spatial) index q of channel ci.
InputAt(ci, q) ==
    LET hw == gcall.ishape[3] * gcall.ishape[4]
    IN  ((q \div hw) * gcall.ishape[2] + ci) * hw + (q % hw)

IsProduct(term) == term[1] >= 0 /\ term[2] >= 0

\* C6: during and after the group loop each slice g of the staging buffer
\* has been assigned exactly once if g < group and not at all otherwise,
\* an assigned element [g, r, q] is the matmul of group g's weight column r
\* and group g's input column q and nothing else, and in the final image
\* every product summed into a position of channel c pairs a weight row and
\* an input channel of group c / im_ch_per_group, for the weight's output
\* channel c % im_ch_per_group.
C6_GroupsDoNotLeak ==
    /\ gpc = "loop" =>
          \A j \in DOMAIN staging.data :
              LET cs0 == col_shape_0(gcall)
                  cs1 == col_shape_1(gcall)
                  g == j \div (cs0 * cs1)
                  r == (j \div cs1) % cs0
                  q == j % cs1
              IN  /\ assigns[j] = IF g < group THEN 1 ELSE 0
                  /\ g < group =>
                        staging.data[j] =
                            {<<(g * input_ch_per_group(gcall) + i) * cs0 + r,
                               InputAt(g * input_ch_per_group(gcall) + i, q)>> :
                                   i \in 0..(input_ch_per_group(gcall) - 1)}
    /\ gpc \in {"col2im", "done"} =>
          \A j \in DOMAIN staging.data :
              /\ assigns[j] = 1
              /\ \A term \in staging.data[j] :
                    /\ IsProduct(term)
                    /\ WeightGroup(term[1]) = j \div (col_shape_0(gcall) * col_shape_1(gcall))
                    /\ InputGroup(term[2]) = j \div (col_shape_0(gcall) * col_shape_1(gcall))
    /\ gpc = "done" =>
          \A p \in DOMAIN gout.data :
              LET c == ch_im(p, args)
                  g == c \div gcall.wshape[2]
              IN  \A term \in gout.data[p] :
                      \/ term = <<-(c + 1), -100>>
                      \/ /\ IsProduct(term)
                         /\ WeightGroup(term[1]) = g
                         /\ InputGroup(term[2]) = g
                         /\ (term[1] % col_shape_0(gcall))
                                \div (gcall.wshape[3] * gcall.wshape[4])
                            = c % gcall.wshape[2]

\* A finished grouped call whose last image position, in a channel of the
\* last group, sums products of several input channels of that group.
C6_Witness ==
    /\ gpc = "done"
    /\ gcall.options.groups = 2
    /\ input_ch_per_group(gcall) = 2
    /\ gcall.wshape[2] = 2
    /\ group = 2
    /\ LET p == ImageLen(args) - 1
       IN  /\ ch_im(p, args) \div gcall.wshape[2] = 1
           /\ Cardinality({t \in gout.data[p] : IsProduct(t)}) >= 2

(***************************************************************************)
(* Autotune keys: tune/conv2d.rs and tune/transpose2d.rs.                  *)
(***************************************************************************)
RECURSIVE Pow2AtLeast(_, _)
Pow2AtLeast(x, p) == IF p >= x THEN p ELSE Pow2AtLeast(x, 2 * p)

\* cubecl's anchor (not among the sources; the specification's rounding
\* of a size to its power-of-two bucket).
anchor(x) == Pow2AtLeast(x, 1)

\* Conv2dAutotuneKey::new: the fields marked #[autotune(anchor)] are anchored.
Conv2dAutotuneKey(kernel_size, stride, padding, dilation, groups, in_channels, out_channels, height, width, batch_size, has_bias) ==
    [ kind |-> "Conv2d", kernel_size |-> kernel_size, stride |-> stride,
      padding |-> padding, dilation |-> dilation, groups |-> groups,
      in_channels |-> anchor(in_channels), out_channels |-> anchor(out_channels),
      height |-> anchor(height), width |-> anchor(width),
      batch_size |-> anchor(batch_size), has_bias |-> has_bias ]

\* ConvTranspose2dAutotuneKey::new
ConvTranspose2dAutotuneKey(kernel_size, stride, padding, padding_out, dilation, groups, in_channels, out_channels, height, width, batch_size, has_bias) ==
    [ kind |-> "ConvTranspose2d", kernel_size |-> kernel_size, stride |-> stride,
      padding |-> padding, padding_out |-> padding_out, dilation |-> dilation,
      groups |-> groups,
      in_channels |-> anchor(in_channels), out_channels |-> anchor(out_channels),
      height |-> anchor(height), width |-> anchor(width),
      batch_size |-> anchor(batch_size), has_bias |-> has_bias ]

\* Tensors handed around: who made them, where they live, their shapes;
\* bias is its shape, or <<>> for None.
\* tune/conv2d.rs, create_key
create_key_conv2d(t, options) ==
    Conv2dAutotuneKey(<<t.wshape[3], t.wshape[4]>>, options.stride, options.padding,
                      options.dilation, options.groups,
                      t.ishape[2], t.wshape[1], t.ishape[3], t.ishape[4], t.ishape[1],
                      t.bias # <<>>)

\* tune/transpose2d.rs, create_key
create_key_transpose(t, options) ==
    ConvTranspose2dAutotuneKey(<<t.wshape[3], t.wshape[4]>>, options.stride,
                               options.padding, options.padding_out, options.dilation,
                               options.groups,
                               t.ishape[2], t.wshape[1], t.ishape[3], t.ishape[4],
                               t.ishape[1], t.bias # <<>>)

\* tune/conv2d.rs, test_inputs
test_inputs(key, device) ==
    [ who |-> "random", device |-> device,
      ishape |-> <<key.batch_size, key.in_channels, key.height, key.width>>,
      wshape |-> <<key.out_channels, key.in_channels \div key.groups,
                   key.kernel_size[1], key.kernel_size[2]>>,
      bias |-> IF key.has_bias THEN <<key.out_channels>> ELSE <<>> ]

\* tune/transpose2d.rs, test_inputs_transpose
test_inputs_transpose(key, device) ==
    [ who |-> "random", device |-> device,
      ishape |-> <<key.batch_size, key.in_channels, key.height, key.width>>,
      wshape |-> <<key.out_channels, key.in_channels \div key.groups,
                   key.kernel_size[1], key.kernel_size[2]>>,
      bias |-> IF key.has_bias THEN <<key.out_channels>> ELSE <<>> ]

\* An operation ready to run: the implementation and what it is run on.
Operation(impl, t, options) == [impl |-> impl, input |-> t, options |-> options]

conv2d_operations_on_caller(key, t, options) ==
    << Operation("conv2d_direct", t, options), Operation("conv2d_im2col", t, options) >>

\* tune/conv2d.rs, conv2d_operations: the candidates to benchmark.
conv2d_operations(key, t, options) ==
    LET inputs == test_inputs(key, t.device)
    IN  << Operation("conv2d_direct", inputs, options),
           Operation("conv2d_im2col", inputs, options) >>

\* tune/transpose2d.rs, conv_transpose2d_operations
conv_transpose2d_operations(key, t, options) ==
    LET inputs == test_inputs_transpose(key, t.device)
    IN  << Operation("conv_transpose2d_direct", inputs, options),
           Operation("conv_transpose2d_col2im", inputs, options) >>

\* What #[tune_set(operations(..))] generates for fastest(i): operation i
\* of the set on the tensors the set was built with (specification 4.2).
Fastest(names, t, options) ==
    [i \in 1..Len(names) |-> Operation(names[i], t, options)]

\* JitTuneId::new::<R>(&input.device)
JitTuneId(device) == device

\* LocalTuner::execute (cubecl; specification 4.2): on a hit run the
\* recorded operation on the caller's tensors; on a miss benchmark every
\* candidate, record the fastest (winner, decided by the timings) and run it
\* on the caller's tensors.
TunerExecute(entries, id, key, candidates, finalists, winner) ==
    LET found == {e \in entries : e.id = id /\ e.key = key}
    IN  IF found # {}
        THEN [ key |-> key, bench |-> <<>>,
               ran |-> <<finalists[(CHOOSE e \in found : TRUE).fastest]>>,
               entries |-> entries ]
        ELSE [ key |-> key, bench |-> candidates,
               ran |-> <<finalists[winner]>>,
               entries |-> entries \cup {[id |-> id, key |-> key, fastest |-> winner]} ]

conv2d_autotune_fresh_tuner(t, options, entries, winner) ==
    LET key == create_key_conv2d(t, options)
    IN  TunerExecute({}, JitTuneId(t.device), key,
                     conv2d_operations(key, t, options),
                     Fastest(<<"conv2d_direct", "conv2d_im2col">>, t, options), winner)

\* tune/conv2d.rs, conv2d_autotune; entries are those of its static TUNER.
conv2d_autotune(t, options, entries, winner) ==
    LET key == create_key_conv2d(t, options)
    IN  TunerExecute(entries, JitTuneId(t.device), key,
                     conv2d_operations(key, t, options),
                     Fastest(<<"conv2d_direct", "conv2d_im2col">>, t, options), winner)

\* tune/transpose2d.rs, conv_transpose2d_autotune
conv_transpose2d_autotune(t, options, entries, winner) ==
    LET key == create_key_transpose(t, options)
    IN  TunerExecute(entries, JitTuneId(t.device), key,
                     conv_transpose2d_operations(key, t, options),
                     Fastest(<<"conv_transpose2d_direct", "conv_transpose2d_col2im">>,
                             t, options), winner)

(***************************************************************************)
(* The dispatcher: base.rs, built with the autotune feature.               *)
(***************************************************************************)
\* A direct call of one implementation.
Plain(impl, t, options, entries) ==
    [ via |-> impl, passed |-> <<t, options>>, key |-> <<>>, bench |-> <<>>,
      ran |-> <<Operation(impl, t, options)>>, entries |-> entries ]

\* A call of an autotuner, with what it did.
Tuned(impl, t, options, done) ==
    [ via |-> impl, passed |-> <<t, options>>, key |-> done.key, bench |-> done.bench,
      ran |-> done.ran, entries |-> done.entries ]

conv2d_gemm_as_direct(t, options, strategy, entries, winner) ==
    CASE strategy = "Direct" -> Plain("conv2d_direct", t, options, entries)
      [] strategy = "Autotune" ->
            Tuned("conv2d_autotune", t, options,
                  conv2d_autotune(t, options, entries, winner))
      [] strategy = "Gemm" -> Plain("conv2d_direct", t, options, entries)

\* base.rs, conv2d
conv2d(t, options, strategy, entries, winner) ==
    CASE strategy = "Direct" -> Plain("conv2d_direct", t, options, entries)
      [] strategy = "Autotune" ->
            Tuned("conv2d_autotune", t, options,
                  conv2d_autotune(t, options, entries, winner))
      [] strategy = "Gemm" -> Plain("conv2d_im2col", t, options, entries)

\* base.rs, conv_transpose2d
conv_transpose2d(t, options, strategy, entries, winner) ==
    CASE strategy = "Direct" -> Plain("conv_transpose2d_direct", t, options, entries)
      [] strategy = "Autotune" ->
            Tuned("conv_transpose2d_autotune", t, options,
                  conv_transpose2d_autotune(t, options, entries, winner))
      [] strategy = "Gemm" -> Plain("conv_transpose2d_col2im", t, options, entries)

(***************************************************************************)
(* ConvSpec: a sequence of calls of conv2d and conv_transpose2d.           *)
(***************************************************************************)
MaxCalls == 2

Devices == {"gpu0", "gpu1"}
BatchSizes == {3, 4}
Strategies == {"Direct", "Autotune", "Gemm"}

\* A call: input [batch, 2, 3, 3], a 2x2 kernel, one group; wc is the
\* weight dimension the input does not fix (conv2d: weight.shape[0], the
\* output channels; conv_transpose2d: weight.shape[1], the output channels
\* per group).
ConvCall(op, strategy, device, b, wc, has_bias) ==
    [ op |-> op, strategy |-> strategy,
      tensors |-> [ who |-> "caller", device |-> device,
                    ishape |-> <<b, 2, 3, 3>>,
                    wshape |-> IF op = "conv2d" THEN <<wc, 2, 2, 2>> ELSE <<2, wc, 2, 2>>,
                    bias |-> IF has_bias THEN <<wc>> ELSE <<>> ],
      options |-> IF op = "conv2d"
                  THEN [stride |-> <<1, 1>>, padding |-> <<0, 0>>,
                        dilation |-> <<1, 1>>, groups |-> 1]
                  ELSE [stride |-> <<1, 1>>, padding |-> <<0, 0>>,
                        padding_out |-> <<0, 0>>, dilation |-> <<1, 1>>, groups |-> 1] ]

\* A depthwise call: three channels in and out, three groups, input
\* [1, 3, 3, 3], weight [3, 1, 2, 2] for either operation.
DepthwiseCall(op, has_bias) ==
    LET c == ConvCall(op, "Autotune", "gpu0", 1, 1, has_bias)
    IN  [c EXCEPT !.tensors.ishape = <<1, 3, 3, 3>>,
                  !.tensors.wshape = <<3, 1, 2, 2>>,
                  !.tensors.bias = IF has_bias THEN <<3>> ELSE <<>>,
                  !.options.groups = 3]

\* Autotune calls in every shape; Direct and Gemm calls in fewer.
ConvCalls(op) ==
    {ConvCall(op, "Autotune", dev, b, wc, hb) :
        dev \in Devices, b \in BatchSizes, wc \in 1..MaxCh, hb \in BOOLEAN}
    \cup {DepthwiseCall(op, hb) : hb \in BOOLEAN}
    \cup {ConvCall(op, st, "gpu0", b, 1, hb) :
        st \in {"Direct", "Gemm"}, b \in BatchSizes, hb \in BOOLEAN}

NoCall ==
    [ call |-> [op |-> "none", strategy |-> "none"], via |-> "none", passed |-> <<>>,
      key |-> <<>>, bench |-> <<>>, ran |-> <<>>, ret |-> <<>> ]

InitConv ==
    /\ IdleLaunch
    /\ IdleGroups
    /\ args = <<>>
    /\ columns = <<>>
    /\ known = <<>>
    /\ res = NoThread
    /\ IdleRepeat
    /\ tuners = [op \in {"conv2d", "conv_transpose2d"} |-> {}]
    /\ last = NoCall
    /\ prev = NoCall
    /\ seen = {}
    /\ ncalls = 0

\* The bookkeeping of one dispatched call c with outcome out.
Dispatched(c, out) ==
    /\ tuners' = [tuners EXCEPT ![c.op] = out.entries]
    /\ last' = [ call |-> c, via |-> out.via, passed |-> out.passed, key |-> out.key,
                 bench |-> out.bench, ran |-> out.ran, ret |-> out.ran[Len(out.ran)] ]
    /\ prev' = last
    /\ seen' = IF last.call.strategy = "Autotune"
               THEN seen \cup {<<last.call.op, last.call.tensors.device, last.key>>}
               ELSE seen
    /\ ncalls' = ncalls + 1
    /\ UNCHANGED kvars
    /\ UNCHANGED lvars
    /\ UNCHANGED gvars
    /\ UNCHANGED rvars

Conv2d ==
    /\ ncalls < MaxCalls
    /\ \E c \in ConvCalls("conv2d"), winner \in 1..2 :
          Dispatched(c, conv2d(c.tensors, c.options, c.strategy, tuners[c.op], winner))

ConvTranspose2d ==
    /\ ncalls < MaxCalls
    /\ \E c \in ConvCalls("conv_transpose2d"), winner \in 1..2 :
          Dispatched(c, conv_transpose2d(c.tensors, c.options, c.strategy,
                                         tuners[c.op], winner))

NextConv ==
    \/ Conv2d
    \/ ConvTranspose2d

ConvSpec == InitConv /\ [][NextConv]_vars

(***************************************************************************)
(* Properties of the autotune keys, the tuner cache and the dispatcher.    *)
(***************************************************************************)
LastTuned == last.call.strategy = "Autotune"

KernelSizeOf(c) == <<c.tensors.wshape[3], c.tensors.wshape[4]>>

\* The channel counts of the operation itself: a conv2d weight is
\* [out, in / groups, kh, kw], a conv_transpose2d weight is
\* [in, out / groups, kh, kw].
InChannelsOf(c) == c.tensors.ishape[2]

OutChannelsOf(c) ==
    IF c.op = "conv2d" THEN c.tensors.wshape[1]
    ELSE c.tensors.wshape[2] * c.options.groups

ShapeClass(c) ==
    [ kernel_size |-> KernelSizeOf(c), options |-> c.options,
      has_bias |-> c.tensors.bias # <<>>,
      in_channels |-> anchor(InChannelsOf(c)),
      out_channels |-> anchor(OutChannelsOf(c)),
      height |-> anchor(c.tensors.ishape[3]), width |-> anchor(c.tensors.ishape[4]),
      batch_size |-> anchor(c.tensors.ishape[1]) ]

\* C7: two autotuned calls of the same operation get equal keys exactly
\* when they agree on kernel size, stride, padding, padding_out, dilation,
\* groups, has-bias and on the anchored input channels, output channels
\* (for conv_transpose2d weight.shape[1] * groups), height, width and batch.
C7_KeysEqualIffSameShapeClass ==
    (LastTuned /\ prev.call.strategy = "Autotune" /\ prev.call.op = last.call.op)
        => ((last.key = prev.key) <=> (ShapeClass(last.call) = ShapeClass(prev.call)))

TuneIdOf(r) == <<r.call.op, JitTuneId(r.call.tensors.device), r.key>>

Recorded(r) ==
    {e \in tuners[r.call.op] :
        e.id = JitTuneId(r.call.tensors.device) /\ e.key = r.key}

Implementations(op) ==
    IF op = "conv2d" THEN <<"conv2d_direct", "conv2d_im2col">>
    ELSE <<"conv_transpose2d_direct", "conv_transpose2d_col2im">>

\* C8: once an autotuned call has completed for a device and key, a later
\* call on that device with an equal key benchmarks nothing and runs exactly
\* one operation, the recorded one, on the caller's tensors; and a call
\* repeating the previous call's inputs returns the same output.
C8_CacheIdempotent ==
    LastTuned =>
        /\ (TuneIdOf(last) \in seen) =>
              /\ last.bench = <<>>
              /\ Len(last.ran) = 1
              /\ last.ran[1].input = last.call.tensors
              /\ Cardinality(Recorded(last)) = 1
              /\ \A e \in Recorded(last) :
                    last.ran[1].impl = Implementations(last.call.op)[e.fastest]
        /\ (prev.call = last.call) => (last.ret = prev.ret)

\* A hit on a key recorded by a call with other exact dimensions.
C8_Witness ==
    /\ LastTuned
    /\ TuneIdOf(last) \in seen
    /\ prev.call.strategy = "Autotune"
    /\ prev.key = last.key
    /\ prev.call.tensors.ishape # last.call.tensors.ishape
    /\ prev.bench # <<>>
    /\ last.bench = <<>>
    /\ last.ret.impl = prev.ret.impl

SyntheticFor(r) ==
    IF r.call.op = "conv2d"
    THEN test_inputs(r.key, r.call.tensors.device)
    ELSE test_inputs_transpose(r.key, r.call.tensors.device)

\* C9: on a miss each candidate (the direct and the gemm implementation) is
\* benchmarked on random tensors built from the key and never on the
\* caller's; what is returned is always the winner's run on the caller's
\* tensors and never a benchmarking run.
C9_BenchmarksOnSyntheticOnly ==
    LastTuned =>
        /\ (TuneIdOf(last) \notin seen) =>
              /\ Len(last.bench) = 2
              /\ \A i \in 1..2 :
                    /\ last.bench[i].impl = Implementations(last.call.op)[i]
                    /\ last.bench[i].input = SyntheticFor(last)
        /\ \A i \in 1..Len(last.bench) :
              /\ last.bench[i].input.who = "random"
              /\ last.bench[i].input # last.call.tensors
              /\ last.bench[i] # last.ret
        /\ last.ret.input = last.call.tensors
        /\ last.ret.options = last.call.options
        /\ \E i \in 1..2 : last.ret.impl = Implementations(last.call.op)[i]

\* A miss after an earlier miss, on a call with a bias whose batch size is
\* its own anchor, won by the gemm implementation.
C9_Witness ==
    /\ LastTuned
    /\ TuneIdOf(last) \notin seen
    /\ seen # {}
    /\ Len(last.bench) = 2
    /\ last.call.tensors.bias # <<>>
    /\ last.call.tensors.ishape[1] = SyntheticFor(last).ishape[1]
    /\ last.call.tensors.ishape # SyntheticFor(last).ishape
    /\ last.ret.impl = Implementations(last.call.op)[2]

Dispatch(op, strategy) ==
    CASE strategy = "Direct" -> Implementations(op)[1]
      [] strategy = "Gemm" -> Implementations(op)[2]
      [] strategy = "Autotune" ->
            IF op = "conv2d" THEN "conv2d_autotune" ELSE "conv_transpose2d_autotune"

\* C10: the dispatcher invokes the one implementation its strategy names
\* (Direct the direct kernel, Gemm im2col or col2im, Autotune the autotuner)
\* and passes it the caller's tensors and options unchanged.
C10_StrategyDeterminesImplementation ==
    (last.call.op # "none") =>
        /\ last.via = Dispatch(last.call.op, last.call.strategy)
        /\ last.passed = <<last.call.tensors, last.call.options>>
        /\ (last.call.strategy # "Autotune") =>
              /\ last.bench = <<>>
              /\ last.ran = <<Operation(last.via, last.call.tensors, last.call.options)>>

C10_Witness ==
    /\ last.call.op = "conv2d"
    /\ last.call.strategy = "Gemm"
    /\ last.via = "conv2d_im2col"
    /\ prev.call.op = "conv_transpose2d"
    /\ prev.call.strategy = "Direct"
    /\ prev.via = "conv_transpose2d_direct"

(***************************************************************************)
(* Unsigned arithmetic of col2im_kernel (KernelSpec).                      *)
(***************************************************************************)
\* ceil(n / d) for an integer n of either sign and d >= 1.
CeilDiv(n, d) == -((-n) \div d)

\* The mathematical results of the subtractions one thread evaluates: the
\* two guarded ones where their guard lets them through, and k_y, k_x at
\* every (col_y, col_x) the loops visit.
Subtractions(t, a) ==
    (IF x_im(t, a) >= kernel_extent_w(a)
     THEN {x_im(t, a) - kernel_extent_w(a)} ELSE {})
    \cup (IF y_im(t, a) >= kernel_extent_h(a)
          THEN {y_im(t, a) - kernel_extent_h(a)} ELSE {})
    \cup {k_y(t, a, Visited(t, a)[i][1]) : i \in 1..Len(Visited(t, a))}
    \cup {k_x(t, a, Visited(t, a)[i][2]) : i \in 1..Len(Visited(t, a))}

\* C11: for an in-range thread no unsigned subtraction of col2im_kernel has
\* a negative mathematical result (k_y and k_x are >= 0 at every visited
\* (col_y, col_x)), the range starts are not negative and each equals
\* max(0, ceil((x_eff - extent + 1) / stride)).
C11_NoNegativeUnsignedSubtraction ==
    InRange =>
        /\ \A d \in Subtractions(res.tid, args) : d >= 0
        /\ \A i \in 1..Len(res.visited) :
              /\ k_y(res.tid, args, res.visited[i][1]) >= 0
              /\ k_x(res.tid, args, res.visited[i][2]) >= 0
        /\ x_col_start(res.tid, args) >= 0
        /\ y_col_start(res.tid, args) >= 0
        /\ x_col_start(res.tid, args) =
              Max(0, CeilDiv(x_im(res.tid, args) - kernel_extent_w(args) + 1,
                             args.stride_w))
        /\ y_col_start(res.tid, args) =
              Max(0, CeilDiv(y_im(res.tid, args) - kernel_extent_h(args) + 1,
                             args.stride_h))

\* A padded thread left of the kernel extent (the guard keeps the
\* subtraction from running) and below it (the subtraction runs), visiting
\* several columns with a positive k_x.
C11_Witness ==
    /\ InRange
    /\ args.pad_h > 0
    /\ x_im(res.tid, args) < kernel_extent_w(args)
    /\ y_im(res.tid, args) >= kernel_extent_h(args)
    /\ y_col_start(res.tid, args) > 0
    /\ Len(res.visited) >= 2
    /\ \E i \in 1..Len(res.visited) : k_x(res.tid, args, res.visited[i][2]) > 0

(***************************************************************************)
(* The synthetic tensors as a convolution configuration (ConvSpec).        *)
(***************************************************************************)
\* What the operation demands of its tensors and options: groups divides
\* the input and output channel counts, the weight's channel dimensions fit
\* (conv2d: weight [out, in / groups, kh, kw]; conv_transpose2d: weight
\* [in, out / groups, kh, kw]) and a bias has one entry per output channel.
ValidConfiguration(op, t, o) ==
    LET out == IF op = "conv2d" THEN t.wshape[1] ELSE t.wshape[2] * o.groups
    IN  /\ t.ishape[2] % o.groups = 0
        /\ out % o.groups = 0
        /\ IF op = "conv2d"
           THEN t.wshape[2] * o.groups = t.ishape[2]
           ELSE t.wshape[1] = t.ishape[2]
        /\ t.bias # <<>> => t.bias = <<out>>

\* C12: when an autotuned call with valid tensors benchmarks, the
\* synthetic tensors of every candidate form a valid configuration with the
\* candidate's options: groups divides the synthetic input channels, the
\* weight's channels fit and the bias has the output channel count.
C12_SyntheticTensorsValid ==
    (LastTuned /\ ValidConfiguration(last.call.op, last.call.tensors, last.call.options))
        => \A i \in 1..Len(last.bench) :
              ValidConfiguration(last.call.op, last.bench[i].input, last.bench[i].options)

(***************************************************************************)
(* repeat_dim: burn-cubecl, kernel/index/repeat_dim.rs.  A tensor is       *)
(* [shape, strides, data] with data the buffer, indexed from 0; dimension  *)
(* i of the code is entry i + 1 of shape and strides.                      *)
(***************************************************************************)
MaxRank == 2
MaxDim == 3
MaxTimes == 2
MaxRepeatLen == 6

\* Strides of a contiguous tensor (empty_device_contiguous).
ContiguousStrides(shape) ==
    [i \in 1..Len(shape) |-> Numel(SubSeq(shape, i + 1, Len(shape)))]

\* Strides of a tensor whose dimensions were swapped end to end before it
\* was handed to repeat_dim.
SwappedStrides(shape) ==
    [i \in 1..Len(shape) |-> Numel(SubSeq(shape, 1, i - 1))]

repeat_shape_of_output(i, input, output, dim) == output.shape[i + 1]

\* let shape = select(i != dim, output.shape(i), input.shape(i));
repeat_shape(i, input, output, dim) ==
    IF i # dim THEN output.shape[i + 1] ELSE input.shape[i + 1]

\* ABSOLUTE_POS / output.stride(i) % shape * input.stride(i)
offset_local(t, i, input, output, dim) ==
    ((t \div output.strides[i + 1]) % repeat_shape(i, input, output, dim))
        * input.strides[i + 1]

\* the loop over 0..input.rank()
offset_input(t, input, output, dim) ==
    SumSeq([k \in 1..Len(input.shape) |-> offset_local(t, k - 1, input, output, dim)])

\* if ABSOLUTE_POS >= output.len() { terminate!(); }
Terminates(t, output) == t >= Numel(output.shape)

\* One whole thread: whether it ran past the guard, the input offset it
\* read, the value it read and the index it stores it to.
repeat_dim_kernel(t, input, output, dim, junk) ==
    IF Terminates(t, output)
    THEN [ran |-> FALSE, offset |-> -1, val |-> 0, store |-> -1]
    ELSE [ran |-> TRUE, offset |-> offset_input(t, input, output, dim),
          val |-> Load(input.data, offset_input(t, input, output, dim), junk),
          store |-> t]

\* calculate_cube_count_elemwise(num_elements, cube_dim) cubes of
\* CubeDimElems threads each.
RepeatLaunched(n) == ((n + CubeDimElems - 1) \div CubeDimElems) * CubeDimElems

\* shape.dims[dim] *= times
RepeatedShape(shape, dim, times) == [shape EXCEPT ![dim + 1] = @ * times]

(***************************************************************************)
(* RepeatSpec: one call of repeat_dim and the threads it launches.         *)
(***************************************************************************)
RepeatShapes == UNION {[1..r -> 1..MaxDim] : r \in 1..MaxRank}

\* Input element at buffer offset o is o + 1, so every element differs.
RepeatInput(shape, strides) ==
    [shape |-> shape, strides |-> strides,
     data |-> [o \in 0..(Numel(shape) - 1) |-> o + 1]]

RepeatCalls ==
    {c \in {[input |-> RepeatInput(sh, st), dim |-> d, times |-> m] :
                sh \in RepeatShapes, st \in {"contiguous", "swapped"},
                d \in 0..(MaxRank - 1), m \in 1..MaxTimes} :
        /\ c.dim < Len(c.input.shape)
        /\ Numel(c.input.shape) * c.times <= MaxRepeatLen}

\* The calls with their strides spelt out.
RepeatCallsLaidOut ==
    {[c EXCEPT !.input.strides =
          IF c.input.strides = "contiguous" THEN ContiguousStrides(c.input.shape)
          ELSE SwappedStrides(c.input.shape)] : c \in RepeatCalls}

InitRepeat ==
    /\ IdleLaunch
    /\ IdleGroups
    /\ IdleConv
    /\ args = <<>>
    /\ columns = <<>>
    /\ known = <<>>
    /\ res = NoThread
    /\ repcall \in RepeatCallsLaidOut
    /\ repout = <<>>
    /\ reppcs = <<>>
    /\ repth = <<>>
    /\ repwriters = <<>>

\* repeat_dim up to and including the launch.
RepeatDim ==
    /\ repout = <<>>
    /\ LET shape == RepeatedShape(repcall.input.shape, repcall.dim, repcall.times)
           n == Numel(shape)
       IN  /\ repout' = [shape |-> shape, strides |-> ContiguousStrides(shape),
                         data |-> [p \in 0..(n - 1) |-> Uninit]]
           /\ reppcs' = [t \in 0..(RepeatLaunched(n) - 1) |-> "start"]
           /\ repth' = [t \in 0..(RepeatLaunched(n) - 1) |->
                           [ran |-> FALSE, offset |-> -1, val |-> 0, store |-> -1]]
           /\ repwriters' = [p \in 0..(n - 1) |-> {}]
    /\ UNCHANGED repcall
    /\ UNCHANGED kvars
    /\ UNCHANGED lvars
    /\ UNCHANGED gvars
    /\ UNCHANGED tvars

\* One launched thread runs repeat_dim_kernel.
RepeatThread(t) ==
    /\ repout # <<>>
    /\ reppcs[t] = "start"
    /\ \E junk \in Junk :
          LET r == repeat_dim_kernel(t, repcall.input, repout, repcall.dim, junk)
          IN  /\ repth' = [repth EXCEPT ![t] = r]
              /\ IF r.ran /\ r.store \in DOMAIN repout.data
                 THEN /\ repout' = [repout EXCEPT !.data[r.store] = r.val]
                      /\ repwriters' = [repwriters EXCEPT ![r.store] = @ \cup {t}]
                 ELSE UNCHANGED <<repout, repwriters>>
    /\ reppcs' = [reppcs EXCEPT ![t] = "done"]
    /\ UNCHANGED repcall
    /\ UNCHANGED kvars
    /\ UNCHANGED lvars
    /\ UNCHANGED gvars
    /\ UNCHANGED tvars

NextRepeat ==
    \/ RepeatDim
    \/ \E t \in DOMAIN reppcs : RepeatThread(t)

RepeatSpec == InitRepeat /\ [][NextRepeat]_vars

\* Coordinates of flat position p of a contiguous tensor of this shape.
CoordsOf(p, shape) ==
    [i \in 1..Len(shape) |->
        (p \div Numel(SubSeq(shape, i + 1, Len(shape)))) % shape[i]]

\* The element of a tensor at these coordinates.
ElementAt(t, coords) ==
    t.data[SumSeq([i \in 1..Len(coords) |-> coords[i] * t.strides[i]])]

\* The input element output position p repeats: the same coordinates with
\* the one along dim taken modulo input.shape[dim].
RepeatedFrom(p) ==
    LET c == CoordsOf(p, repout.shape)
    IN  ElementAt(repcall.input,
                  [c EXCEPT ![repcall.dim + 1] = @ % repcall.input.shape[repcall.dim + 1]])

RepeatAllDone == repout # <<>> /\ \A t \in DOMAIN reppcs : reppcs[t] = "done"

\* C13: the output's shape is the input's with dimension dim multiplied by
\* times; a thread at or past output.len() reads and writes nothing; the
\* thread of position p reads inside the input and writes to p the input
\* element at p's coordinates with the one along dim taken modulo
\* input.shape[dim]; no position is written by any other thread, and once
\* all threads are done every position was written exactly once.
C13_RepeatDimRepeats ==
    (repout # <<>>) =>
        /\ Len(repout.shape) = Len(repcall.input.shape)
        /\ \A i \in 1..Len(repout.shape) :
              repout.shape[i] = IF i = repcall.dim + 1
                                THEN repcall.input.shape[i] * repcall.times
                                ELSE repcall.input.shape[i]
        /\ \A t \in DOMAIN reppcs :
              (reppcs[t] = "done") =>
                  IF t >= Numel(repout.shape)
                  THEN ~repth[t].ran /\ repth[t].store = -1 /\ repth[t].offset = -1
                  ELSE /\ repth[t].ran
                       /\ repth[t].store = t
                       /\ repth[t].offset \in DOMAIN repcall.input.data
                       /\ repout.data[t] = RepeatedFrom(t)
        /\ \A p \in DOMAIN repout.data :
              /\ repwriters[p] \subseteq {p}
              /\ (reppcs[p] = "start") => (repout.data[p] = Uninit /\ repwriters[p] = {})
              /\ (reppcs[p] = "done") => repwriters[p] = {p}

\* A launch with idle threads past the end has finished, on a swapped
\* two-dimensional input repeated along a dimension longer than one, and
\* the last position repeats an element that is not at its own coordinates.
C13_Witness ==
    /\ RepeatAllDone
    /\ Len(repcall.input.shape) = 2
    /\ repcall.input.strides # ContiguousStrides(repcall.input.shape)
    /\ repcall.times >= 2
    /\ repcall.input.shape[repcall.dim + 1] >= 2
    /\ Cardinality(DOMAIN reppcs) > Numel(repout.shape)
    /\ CoordsOf(Numel(repout.shape) - 1, repout.shape)[repcall.dim + 1]
          >= repcall.input.shape[repcall.dim + 1]
    /\ repout.data[Numel(repout.shape) - 1] = RepeatedFrom(Numel(repout.shape) - 1)

====
